---- MODULE Spec2Model ----
(***************************************************************************)
(* A model of search_engine.py: the BFS crawler (WebCrawler.crawl), the    *)
(* index construction (SearchEngine.build_index), the prefix tree (Trie)   *)
(* and the ranked conjunctive search (SearchEngine.search).                *)
(*                                                                         *)
(* Words and queries are sequences of one-character strings.  A Python     *)
(* dict is a function with a finite domain; a defaultdict is the same      *)
(* function whose read of a missing key inserts the default (DefaultGet).  *)
(* Python positions are 0-based: position p of inverted_index is the       *)
(* element p + 1 of the sequence.  A score is a fixed-point number.        *)
(*                                                                         *)
(* Spec follows one engine that is built, rebuilt and searched, over small *)
(* directories; BuildSpec follows engines that are built and rebuilt, over *)
(* larger directories; CrawlSpec does the same over documents that hold    *)
(* links only, and states the fairness of the crawl loop.                  *)
(***************************************************************************)
EXTENDS Integers, Sequences, FiniteSets, TLC

(* ------------------------------ bounds -------------------------------- *)

MaxWords == 3        \* words extracted from one document
MaxLinks == 2        \* links extracted from one document
MaxItems == 5        \* words and links of a whole directory, building only
MaxSearchItems == 3  \* words and links of a whole directory that is searched
MaxQueryLen == 4     \* characters of a query string
MaxBuilds == 2       \* build_index calls on one engine
MaxEngines == 2      \* SearchEngine objects constructed over the directory
MaxSearches == 1     \* search calls after one build_index call

(* --------------------------- the collection --------------------------- *)

\* The ".html" files of the directory, in the order os.listdir returns them.
\* The documents of both files range over the same set, so the other order
\* gives the same runs with the names exchanged.
all_files == <<"A", "B">>

Files == {all_files[i] : i \in 1..Len(all_files)}

\* A link target that ends with ".html" but names no file of the directory.
Outside == "X"

Targets == Files \cup {Outside}

\* None, as the occurrence_index of a node: no position is negative.
None == -1

SeqsUpTo(S, n) == UNION {[1..k -> S] : k \in 0..n}

\* The stop words that can be spelled with the letters of the model.
STOP_WORDS == { <<"a">> }

\* The words extract can return for the documents of the model: lower-case,
\* alphabetic, no stop word.  <<"b">> is a proper prefix of <<"b","a">>.
Vocabulary == { <<"b">>, <<"b", "a">> }

QueryChars == {"A", "b", " "}

Letters == {"a", "b", "A", "B"}

(* ------------------------------ dicts --------------------------------- *)

EmptyDict == <<>>

DictPut(d, k, v) == [x \in (DOMAIN d) \cup {k} |-> IF x = k THEN v ELSE d[x]]

\* defaultdict(int).__getitem__: a missing key is inserted with 0.
DefaultGet(d, k) ==
    IF k \in DOMAIN d THEN [value |-> d[k], dict |-> d]
    ELSE [value |-> 0, dict |-> DictPut(d, k, 0)]

\* defaultdict(list).__getitem__: a missing key is inserted with [].
DefaultList(d, k) == IF k \in DOMAIN d THEN d[k] ELSE <<>>

VARIABLES
    disk,              \* the directory: per file, readable?, extract's words and links
    ranking_mode,      \* SearchEngine.ranking_mode
    pc,                \* "new", "crawling", "crawled", "ready"
    queue,             \* crawl: queue
    visited,           \* crawl: visited
    pages,             \* WebCrawler.pages, in insertion order
    links,             \* WebCrawler.links
    inverted_index,    \* SearchEngine.inverted_index
    word_to_index,     \* SearchEngine.word_to_index
    document_lengths,  \* SearchEngine.document_lengths
    incoming_links,    \* SearchEngine.incoming_links
    trie,              \* SearchEngine.trie: node (its path) -> occurrence_index
    query,             \* the argument of the last search call
    result,            \* what the last search call returned
    outcome,           \* "none", "returned", "raised"
    fetched,           \* per file, the open() calls of the current crawl
    builds,            \* completed build_index calls on this engine
    searches,          \* search calls since the last build_index call
    engines,           \* engines constructed so far
    first_view         \* <<the index as the first completed build left it>>

vars == <<disk, ranking_mode, pc, queue, visited, pages, links, inverted_index,
          word_to_index, document_lengths, incoming_links, trie, query, result,
          outcome, fetched, builds, searches, engines, first_view>>

input == <<disk, ranking_mode>>
crawler == <<pages, links>>
index == <<inverted_index, word_to_index, document_lengths, incoming_links, trie>>
last_search == <<query, result, outcome>>

(* --------------------------- WebCrawler ------------------------------- *)

Unreadable == [readable |-> FALSE, words |-> <<>>, links |-> <<>>]

Documents ==
    {Unreadable} \cup
    [readable : {TRUE}, words : SeqsUpTo(Vocabulary, MaxWords),
     links : SeqsUpTo(Targets, MaxLinks)]

InList(x, s) == \E i \in 1..Len(s) : s[i] = x

\* pages[file] = {...}: a new key goes last, an old key keeps its place.
PagesPut(p, file, words) ==
    IF \E i \in 1..Len(p) : p[i].file = file
    THEN [i \in 1..Len(p) |->
            IF p[i].file = file THEN [file |-> file, words |-> words] ELSE p[i]]
    ELSE Append(p, [file |-> file, words |-> words])

PageKeys(p) == {p[i].file : i \in 1..Len(p)}

PageWords(p, file) == p[CHOOSE i \in 1..Len(p) : p[i].file = file].words

\* FollowLinks without the test that the link names a file of the directory.
RECURSIVE FollowLinksAnywhere(_, _, _, _, _, _)
FollowLinksAnywhere(file, outgoing, i, vis, lk, q) ==
    IF i > Len(outgoing) THEN [links |-> lk, queue |-> q]
    ELSE LET link == outgoing[i]
             lk2 == DictPut(lk, file, Append(DefaultList(lk, file), link))
             q2 == IF link \notin vis THEN Append(q, link) ELSE q
         IN FollowLinksAnywhere(file, outgoing, i + 1, vis, lk2, q2)

\* The for loop over outgoing: record every link, enqueue the unvisited
\* links that name a file of the directory.
RECURSIVE FollowLinks(_, _, _, _, _, _)
FollowLinks(file, outgoing, i, vis, lk, q) ==
    IF i > Len(outgoing) THEN [links |-> lk, queue |-> q]
    ELSE LET link == outgoing[i]
             lk2 == DictPut(lk, file, Append(DefaultList(lk, file), link))
             q2 == IF link \notin vis /\ InList(link, all_files)
                   THEN Append(q, link) ELSE q
         IN FollowLinks(file, outgoing, i + 1, vis, lk2, q2)

\* build_index enters crawl: queue and visited are fresh, every listed file
\* is queued.  pages and links are the crawler's fields and are kept.  What
\* an earlier search returned is no longer looked at.
CrawlStart ==
    /\ pc \in {"new", "ready"}
    /\ builds < MaxBuilds
    /\ pc' = "crawling"
    /\ queue' = all_files
    /\ visited' = {}
    /\ fetched' = [f \in Files |-> 0]
    /\ query' = <<>>
    /\ result' = <<>>
    /\ outcome' = "none"
    /\ UNCHANGED <<input, crawler, index, builds, searches, engines, first_view>>

\* One iteration: the dequeued file was visited before.
CrawlSkipVisited ==
    /\ pc = "crawling"
    /\ queue # <<>>
    /\ Head(queue) \in visited
    /\ queue' = Tail(queue)
    /\ UNCHANGED <<input, pc, visited, crawler, index, last_search, fetched,
                   builds, searches, engines, first_view>>

\* CrawlFetchFails recording an empty page for the file it could not read.
CrawlFetchFailsRecording ==
    /\ pc = "crawling"
    /\ queue # <<>>
    /\ Head(queue) \notin visited
    /\ ~disk[Head(queue)].readable
    /\ queue' = Tail(queue)
    /\ visited' = visited \cup {Head(queue)}
    /\ fetched' = [fetched EXCEPT ![Head(queue)] = @ + 1]
    /\ pages' = PagesPut(pages, Head(queue), <<>>)
    /\ UNCHANGED <<input, pc, links, index, last_search, builds, searches, engines,
                   first_view>>

\* One iteration: open() raises, the file is skipped.
CrawlFetchFails ==
    /\ pc = "crawling"
    /\ queue # <<>>
    /\ Head(queue) \notin visited
    /\ ~disk[Head(queue)].readable
    /\ queue' = Tail(queue)
    /\ visited' = visited \cup {Head(queue)}
    /\ fetched' = [fetched EXCEPT ![Head(queue)] = @ + 1]
    /\ UNCHANGED <<input, pc, crawler, index, last_search, builds, searches, engines,
                   first_view>>

\* One iteration: the file is read, extracted, recorded and its links followed.
CrawlFetch ==
    /\ pc = "crawling"
    /\ queue # <<>>
    /\ Head(queue) \notin visited
    /\ disk[Head(queue)].readable
    /\ LET file == Head(queue)
           vis == visited \cup {file}
           r == FollowLinks(file, disk[file].links, 1, vis, links, Tail(queue))
       IN /\ visited' = vis
          /\ pages' = PagesPut(pages, file, disk[file].words)
          /\ links' = r.links
          /\ queue' = r.queue
          /\ fetched' = [fetched EXCEPT ![file] = @ + 1]
    /\ UNCHANGED <<input, pc, index, last_search, builds, searches, engines, first_view>>

\* The while loop ends: crawl returns.
CrawlDone ==
    /\ pc = "crawling"
    /\ queue = <<>>
    /\ pc' = "crawled"
    /\ UNCHANGED <<input, queue, visited, crawler, index, last_search, fetched,
                   builds, searches, engines, first_view>>

(* ------------------------------- Trie --------------------------------- *)

\* Trie(): the root alone.  A node is named by the path that leads to it.
EmptyTrie == DictPut(EmptyDict, <<>>, None)

\* TrieInsertFrom storing the position in every node of the path.
RECURSIVE TrieInsertMarking(_, _, _, _, _)
TrieInsertMarking(t, node, word, i, occ_idx) ==
    IF i > Len(word) THEN [t EXCEPT ![node] = occ_idx]
    ELSE LET child == Append(node, word[i])
         IN TrieInsertMarking(DictPut(t, child, occ_idx), child, word, i + 1, occ_idx)

RECURSIVE TrieInsertFrom(_, _, _, _, _)
TrieInsertFrom(t, node, word, i, occ_idx) ==
    IF i > Len(word) THEN [t EXCEPT ![node] = occ_idx]
    ELSE LET child == Append(node, word[i])
             t2 == IF child \in DOMAIN t THEN t ELSE DictPut(t, child, None)
         IN TrieInsertFrom(t2, child, word, i + 1, occ_idx)

TrieInsert(t, word, occ_idx) == TrieInsertFrom(t, <<>>, word, 1, occ_idx)

RECURSIVE TrieSearchFrom(_, _, _, _)
TrieSearchFrom(t, node, word, i) ==
    IF i > Len(word) THEN t[node]
    ELSE IF Append(node, word[i]) \notin DOMAIN t THEN None
    ELSE TrieSearchFrom(t, Append(node, word[i]), word, i + 1)

TrieSearch(t, word) == TrieSearchFrom(t, <<>>, word, 1)

(* --------------------------- build_index ------------------------------ *)

\* for dest in outs: incoming_links[dest] += 1
RECURSIVE CountOuts(_, _, _)
CountOuts(outs, i, inc) ==
    IF i > Len(outs) THEN inc
    ELSE LET g == DefaultGet(inc, outs[i])
         IN CountOuts(outs, i + 1, DictPut(g.dict, outs[i], g.value + 1))

\* for src, outs in links.items(): the sum does not depend on the order.
RECURSIVE CountIncoming(_, _, _)
CountIncoming(lk, todo, inc) ==
    IF todo = {} THEN inc
    ELSE LET src == CHOOSE f \in todo : TRUE
         IN CountIncoming(lk, todo \ {src}, CountOuts(lk[src], 1, inc))

\* Counter(words): the distinct words in order of first occurrence ...
RECURSIVE CounterKeys(_, _, _)
CounterKeys(words, i, seen) ==
    IF i > Len(words) THEN seen
    ELSE CounterKeys(words, i + 1,
                     IF InList(words[i], seen) THEN seen ELSE Append(seen, words[i]))

\* ... and the number of occurrences of each.
CounterValue(words, word) == Cardinality({i \in 1..Len(words) : words[i] = word})

\* SumValues counting the distinct words instead of the occurrences.
SumValuesDistinct(words, keys, i) == Len(keys)

RECURSIVE SumValues(_, _, _)
SumValues(words, keys, i) ==
    IF i > Len(keys) THEN 0
    ELSE CounterValue(words, keys[i]) + SumValues(words, keys, i + 1)

\* for word, freq in word_freq.items(): a new word gets the next position and
\* an empty posting list; the frequency is stored under the file.
RECURSIVE IndexWords(_, _, _, _, _)
IndexWords(file, words, keys, i, st) ==
    IF i > Len(keys) THEN st
    ELSE LET word == keys[i]
             isNew == word \notin DOMAIN st.word_to_index
             wti == IF isNew
                    THEN DictPut(st.word_to_index, word, Len(st.inverted_index))
                    ELSE st.word_to_index
             inv == IF isNew THEN Append(st.inverted_index, EmptyDict)
                    ELSE st.inverted_index
             idx == wti[word]
             inv2 == [inv EXCEPT ![idx + 1] =
                        DictPut(@, file, CounterValue(words, word))]
         IN IndexWords(file, words, keys, i + 1,
                       [st EXCEPT !.word_to_index = wti, !.inverted_index = inv2])

\* for file, data in pages.items()
RECURSIVE IndexPages(_, _, _)
IndexPages(p, i, st) ==
    IF i > Len(p) THEN st
    ELSE LET keys == CounterKeys(p[i].words, 1, <<>>)
             st2 == [st EXCEPT !.document_lengths =
                        DictPut(@, p[i].file, SumValues(p[i].words, keys, 1))]
         IN IndexPages(p, i + 1, IndexWords(p[i].file, p[i].words, keys, 1, st2))

\* for word, idx in word_to_index.items(): trie.insert(word, idx)
RECURSIVE InsertAll(_, _, _)
InsertAll(wti, todo, t) ==
    IF todo = {} THEN t
    ELSE LET word == CHOOSE w \in todo : TRUE
         IN InsertAll(wti, todo \ {word}, TrieInsert(t, word, wti[word]))

\* What the claims compare between builds: the posting list of every term,
\* the document lengths, and the inbound count of every link target.
View(inv, wti, lens, inc) ==
    [postings |-> [w \in DOMAIN wti |-> inv[wti[w] + 1]],
     lengths |-> lens,
     inbound |-> [d \in Targets |-> DefaultGet(inc, d).value]]

\* The rest of build_index, after crawl has returned.
BuildIndex ==
    /\ pc = "crawled"
    /\ LET inc == CountIncoming(links, DOMAIN links, incoming_links)
           st == IndexPages(pages, 1,
                    [word_to_index |-> word_to_index,
                     inverted_index |-> inverted_index,
                     document_lengths |-> document_lengths])
       IN /\ incoming_links' = inc
          /\ word_to_index' = st.word_to_index
          /\ inverted_index' = st.inverted_index
          /\ document_lengths' = st.document_lengths
          /\ trie' = InsertAll(st.word_to_index, DOMAIN st.word_to_index, trie)
          /\ first_view' =
                IF first_view = <<>>
                THEN <<View(st.inverted_index, st.word_to_index,
                            st.document_lengths, inc)>>
                ELSE first_view
    /\ pc' = "ready"
    /\ builds' = builds + 1
    /\ searches' = 0
    /\ UNCHANGED <<input, queue, visited, crawler, last_search, fetched, engines>>

\* SearchEngine(directory, ranking_mode): a second engine over the same
\* directory, with its own crawler, trie and empty index structures.
NewEngine ==
    /\ pc = "ready"
    /\ engines < MaxEngines
    /\ engines' = engines + 1
    /\ pc' = "new"
    /\ pages' = <<>>
    /\ links' = EmptyDict
    /\ trie' = EmptyTrie
    /\ inverted_index' = <<>>
    /\ word_to_index' = EmptyDict
    /\ document_lengths' = EmptyDict
    /\ incoming_links' = EmptyDict
    /\ builds' = 0
    /\ searches' = 0
    /\ query' = <<>>
    /\ result' = <<>>
    /\ outcome' = "none"
    /\ UNCHANGED <<input, queue, visited, fetched, first_view>>

(* ----------------------------- scoring -------------------------------- *)

\* Scores are fixed-point numbers: the score 1.0 is One.  The unit is small
\* enough that freq / L, idf to four decimals and 0.1 * count are all whole.
Scale == 10000

\* math.log(k) for k = 1 .. 6, times Scale.
LnScaled == <<0, 6931, 10986, 13863, 16094, 17918>>

RECURSIVE Gcd(_, _)
Gcd(a, b) == IF b = 0 THEN a ELSE Gcd(b, a % b)

RECURSIVE LcmUpTo(_)
LcmUpTo(n) == IF n <= 1 THEN 1 ELSE (LcmUpTo(n - 1) * n) \div Gcd(LcmUpTo(n - 1), n)

\* Every document length of the model divides LenLcm.
LenLcm == LcmUpTo(MaxWords)

One == 10 * Scale * LenLcm

\* idf = math.log((1 + N) / (1 + df)) + 1, times Scale
Idf(N, df) == LnScaled[1 + N] - LnScaled[1 + df] + Scale

\* compute_score(word, doc, freq, N, df), in units of 1 / One
compute_score(mode, lens, doc, freq, N, df) ==
    IF mode = "simple" THEN freq * One
    ELSE (freq * (LenLcm \div lens[doc])) * (10 * Idf(N, df))

\* tf = freq / self.document_lengths[doc] raises KeyError or ZeroDivisionError
ScoreRaises(mode, lens, doc) ==
    mode # "simple" /\ (doc \notin DOMAIN lens \/ lens[doc] = 0)

(* ------------------------------ search -------------------------------- *)

\* str.lower on the characters of the model
Lower(c) == IF c = "A" THEN "a" ELSE IF c = "B" THEN "b" ELSE c

LowerAll(text) == [i \in 1..Len(text) |-> Lower(text[i])]

\* re.findall(r"[a-zA-Z]+", text): the maximal runs of letters, left to right
RECURSIVE FindAll(_, _, _, _)
FindAll(text, i, run, found) ==
    IF i > Len(text) THEN (IF run = <<>> THEN found ELSE Append(found, run))
    ELSE IF text[i] \in Letters THEN FindAll(text, i + 1, Append(run, text[i]), found)
    ELSE FindAll(text, i + 1, <<>>, IF run = <<>> THEN found ELSE Append(found, run))

RECURSIVE DropStopWords(_, _)
DropStopWords(words, i) ==
    IF i > Len(words) THEN <<>>
    ELSE IF words[i] \in STOP_WORDS THEN DropStopWords(words, i + 1)
    ELSE <<words[i]>> \o DropStopWords(words, i + 1)

\* The first two statements of search.
Normalize(q) == DropStopWords(FindAll(LowerAll(q), 1, <<>>, <<>>), 1)

\* DocSets without the test for None.
RECURSIVE DocSetsUnchecked(_, _, _, _, _)
DocSetsUnchecked(t, inv, terms, i, sets) ==
    IF i > Len(terms) THEN [kind |-> "sets", sets |-> sets]
    ELSE LET idx == TrieSearch(t, terms[i])
         IN IF idx + 1 \notin DOMAIN inv THEN [kind |-> "raised", sets |-> <<>>]
            ELSE DocSetsUnchecked(t, inv, terms, i + 1,
                                  Append(sets, DOMAIN inv[idx + 1]))

\* The first loop of search: "none" when a term is not in the trie, "raised"
\* when a position is no index of inverted_index, else the key sets.
RECURSIVE DocSets(_, _, _, _, _)
DocSets(t, inv, terms, i, sets) ==
    IF i > Len(terms) THEN [kind |-> "sets", sets |-> sets]
    ELSE LET idx == TrieSearch(t, terms[i])
         IN IF idx = None THEN [kind |-> "none", sets |-> <<>>]
            ELSE IF idx + 1 \notin DOMAIN inv THEN [kind |-> "raised", sets |-> <<>>]
            ELSE DocSets(t, inv, terms, i + 1, Append(sets, DOMAIN inv[idx + 1]))

\* Intersection with the union taken instead: a document of any term's list.
IntersectionAny(sets) == UNION {sets[i] : i \in 1..Len(sets)}

\* set.intersection(*doc_sets), of at least one set
Intersection(sets) == {d \in sets[1] : \A i \in 1..Len(sets) : d \in sets[i]}

\* The inner loop of the ranking: total_score over the terms.
RECURSIVE TermScores(_, _, _, _, _, _, _, _)
TermScores(mode, t, inv, lens, N, doc, terms, i) ==
    IF i > Len(terms) THEN 0
    ELSE LET occurrences == inv[TrieSearch(t, terms[i]) + 1]
             df == Cardinality(DOMAIN occurrences)
             freq == DefaultGet(occurrences, doc).value
         IN compute_score(mode, lens, doc, freq, N, df)
            + TermScores(mode, t, inv, lens, N, doc, terms, i + 1)

\* total_score += 0.1 * self.incoming_links[doc]
Bonus(inc, doc) == DefaultGet(inc, doc).value * (One \div 10)

\* The reads self.incoming_links[doc] of the ranking loop, one per candidate.
RECURSIVE ReadIncoming(_, _)
ReadIncoming(inc, docs) ==
    IF docs = {} THEN inc
    ELSE LET doc == CHOOSE d \in docs : TRUE
         IN ReadIncoming(DefaultGet(inc, doc).dict, docs \ {doc})

\* Sorted without reverse=True: ascending scores.
SortedAscending(scores) ==
    LET docs == DOMAIN scores
        n == Cardinality(docs)
    IN {[i \in 1..n |-> <<order[i], scores[order[i]]>>] :
          order \in {o \in [1..n -> docs] :
                       /\ \A i, j \in 1..n : i # j => o[i] # o[j]
                       /\ \A i, j \in 1..n : i < j => scores[o[i]] <= scores[o[j]]}}

\* sorted(scores.items(), key=lambda x: x[1], reverse=True): the order of
\* equal scores is the iteration order of a set, which is any order.
Sorted(scores) ==
    LET docs == DOMAIN scores
        n == Cardinality(docs)
    IN {[i \in 1..n |-> <<order[i], scores[order[i]]>>] :
          order \in {o \in [1..n -> docs] :
                       /\ \A i, j \in 1..n : i # j => o[i] # o[j]
                       /\ \A i, j \in 1..n : i < j => scores[o[i]] >= scores[o[j]]}}

\* search(query): the outcome, the lists it can return, incoming_links after.
SearchRun(q) ==
    LET terms == Normalize(q)
        sets == DocSets(trie, inverted_index, terms, 1, <<>>)
        empty == [outcome |-> "returned", results |-> {<<>>}, incoming |-> incoming_links]
        raised == [outcome |-> "raised", results |-> {<<>>}, incoming |-> incoming_links]
    IN IF terms = <<>> THEN empty
       ELSE IF sets.kind = "none" THEN empty
       ELSE IF sets.kind = "raised" THEN raised
       ELSE LET matching_docs == Intersection(sets.sets)
                N == Len(pages)
            IN IF matching_docs = {} THEN empty
               ELSE IF \E doc \in matching_docs :
                          ScoreRaises(ranking_mode, document_lengths, doc)
               THEN raised
               ELSE LET scores ==
                          [doc \in matching_docs |->
                             TermScores(ranking_mode, trie, inverted_index,
                                        document_lengths, N, doc, terms, 1)
                             + Bonus(incoming_links, doc)]
                    IN [outcome |-> "returned", results |-> Sorted(scores),
                        incoming |-> ReadIncoming(incoming_links, matching_docs)]

Queries == SeqsUpTo(QueryChars, MaxQueryLen)

Search ==
    /\ pc = "ready"
    /\ searches < MaxSearches
    /\ searches' = searches + 1
    /\ \E q \in Queries :
         LET r == SearchRun(q)
         IN /\ query' = q
            /\ outcome' = r.outcome
            /\ result' \in r.results
            /\ incoming_links' = r.incoming
    /\ UNCHANGED <<input, pc, queue, visited, crawler, inverted_index, word_to_index,
                   document_lengths, trie, fetched, builds, engines, first_view>>

(* --------------------------- specification ---------------------------- *)

Modes == {"simple", "tf-idf"}

RECURSIVE Items(_, _)
Items(d, files) ==
    IF files = {} THEN 0
    ELSE LET f == CHOOSE x \in files : TRUE
         IN Len(d[f].words) + Len(d[f].links) + Items(d, files \ {f})

\* A fresh engine and crawler over a directory.
Constructed ==
    /\ pc = "new"
    /\ queue = <<>>
    /\ visited = {}
    /\ pages = <<>>
    /\ links = EmptyDict
    /\ inverted_index = <<>>
    /\ word_to_index = EmptyDict
    /\ document_lengths = EmptyDict
    /\ incoming_links = EmptyDict
    /\ trie = EmptyTrie
    /\ query = <<>>
    /\ result = <<>>
    /\ outcome = "none"
    /\ fetched = [f \in Files |-> 0]
    /\ builds = 0
    /\ searches = 0
    /\ engines = 1
    /\ first_view = <<>>

\* One engine, either ranking mode, built and searched.
Init ==
    /\ disk \in {d \in [Files -> Documents] : Items(d, Files) <= MaxSearchItems}
    /\ ranking_mode \in Modes
    /\ Constructed

Next ==
    \/ CrawlStart
    \/ CrawlSkipVisited
    \/ CrawlFetchFails
    \/ CrawlFetch
    \/ CrawlDone
    \/ BuildIndex
    \/ Search

Spec == Init /\ [][Next]_vars

\* Engines of the default ranking mode, built and rebuilt, never searched.
InitBuild ==
    /\ disk \in {d \in [Files -> Documents] : Items(d, Files) <= MaxItems}
    /\ ranking_mode = "tf-idf"
    /\ Constructed

NextBuild ==
    \/ CrawlStart
    \/ CrawlSkipVisited
    \/ CrawlFetchFails
    \/ CrawlFetch
    \/ CrawlDone
    \/ BuildIndex
    \/ NewEngine

BuildSpec == InitBuild /\ [][NextBuild]_vars

\* Directories of documents without text and with any links, crawled and
\* built.  crawl is a loop of a sequential program: once entered, its
\* iterations and its exit are taken.
InitCrawl ==
    /\ disk \in [Files -> {d \in Documents : d.words = <<>>}]
    /\ ranking_mode = "tf-idf"
    /\ Constructed

CrawlSpec ==
    /\ InitCrawl
    /\ [][NextBuild]_vars
    /\ WF_vars(CrawlSkipVisited \/ CrawlFetchFails \/ CrawlFetch \/ CrawlDone)

(* ------------------------------ claims -------------------------------- *)

\* The number of times x occurs in the sequence s.
Occurs(s, x) == Cardinality({i \in 1..Len(s) : s[i] = x})

\* The files whose fetch succeeds.
Readable == {f \in Files : disk[f].readable}

LongestWord == CHOOSE n \in {Len(w) : w \in Vocabulary} : \A w \in Vocabulary : Len(w) <= n

\* The strings of lower-case letters up to one letter longer than any word
\* of a document, the empty one included: a longer string has no node in
\* the trie and no occurrence in a document.
Strings == SeqsUpTo({"a", "b"}, LongestWord + 1)

\* The crawled documents that contain the word.
Containing(word) == {f \in PageKeys(pages) : Occurs(PageWords(pages, f), word) >= 1}

ResultDocs == {result[i][1] : i \in 1..Len(result)}

Inbound(d) == IF d \in DOMAIN incoming_links THEN incoming_links[d] ELSE 0

Searched == pc = "ready" /\ outcome = "returned"

\* C1: the documents search returns are exactly the crawled documents that
\* contain every normalized query term, each with a posting-list frequency
\* of at least 1; none when a term occurs nowhere or no term is left.
C1_ConjunctiveResult ==
    Searched =>
        LET terms == Normalize(query)
        IN /\ ResultDocs =
                IF terms = <<>> THEN {}
                ELSE {f \in PageKeys(pages) :
                        \A i \in 1..Len(terms) : f \in Containing(terms[i])}
           /\ Len(result) = Cardinality(ResultDocs)
           /\ \A d \in ResultDocs : \A i \in 1..Len(terms) :
                /\ terms[i] \in DOMAIN word_to_index
                /\ d \in DOMAIN inverted_index[word_to_index[terms[i]] + 1]
                /\ inverted_index[word_to_index[terms[i]] + 1][d] >= 1

\* A query of two different terms returned one crawled document and left
\* out another.
C1_Witness ==
    /\ Searched
    /\ Len(Normalize(query)) = 2
    /\ Normalize(query)[1] # Normalize(query)[2]
    /\ ResultDocs # {}
    /\ PageKeys(pages) \ ResultDocs # {}

RECURSIVE SumOccurs(_, _, _)
SumOccurs(words, terms, i) ==
    IF i > Len(terms) THEN 0
    ELSE Occurs(words, terms[i]) + SumOccurs(words, terms, i + 1)

\* C2: search returns its candidates in non-increasing order of score; in
\* simple mode the score of a document is the sum over the query terms of
\* the term's frequency in it plus, once, 0.1 times its inbound-link count,
\* so for one term and equal inbound counts the higher frequency comes first.
C2_RankedByScore ==
    Searched =>
        LET terms == Normalize(query)
        IN /\ \A i, j \in 1..Len(result) : i < j => result[i][2] >= result[j][2]
           /\ ranking_mode = "simple" =>
                \A i \in 1..Len(result) :
                    result[i][2] =
                        SumOccurs(PageWords(pages, result[i][1]), terms, 1) * One
                        + Inbound(result[i][1]) * (One \div 10)
           /\ (ranking_mode = "simple" /\ Len(terms) = 1) =>
                \A i, j \in 1..Len(result) :
                    (/\ Inbound(result[i][1]) = Inbound(result[j][1])
                     /\ Occurs(PageWords(pages, result[i][1]), terms[1])
                          > Occurs(PageWords(pages, result[j][1]), terms[1]))
                    => i < j

\* Simple mode, one term, two documents of equal inbound count, the one
\* with more occurrences first.
C2_Witness ==
    /\ Searched
    /\ ranking_mode = "simple"
    /\ Len(Normalize(query)) = 1
    /\ Len(result) = 2
    /\ Inbound(result[1][1]) = Inbound(result[2][1])
    /\ Occurs(PageWords(pages, result[1][1]), Normalize(query)[1])
         > Occurs(PageWords(pages, result[2][1]), Normalize(query)[1])

CurrentView == View(inverted_index, word_to_index, document_lengths, incoming_links)

\* C3: a build of the unchanged collection, by a second build_index call or
\* by a second engine, leaves posting lists, document lengths and inbound
\* counts identical to those of the first build.
C3_RebuildIdentical ==
    (pc = "ready" /\ first_view # <<>>) => CurrentView = first_view[1]

\* C4: a search call changes no index structure, the key set of the
\* inbound-link counts included.
C4_SearchReadsOnly ==
    [][searches' = searches + 1 =>
          /\ inverted_index' = inverted_index
          /\ word_to_index' = word_to_index
          /\ trie' = trie
          /\ document_lengths' = document_lengths
          /\ incoming_links' = incoming_links]_vars

RECURSIVE LinksTo(_, _)
LinksTo(d, files) ==
    IF files = {} THEN 0
    ELSE LET f == CHOOSE x \in files : TRUE
         IN Occurs(disk[f].links, d) + LinksTo(d, files \ {f})

\* C5: after build_index the inbound count of every identifier is the number
\* of links to it in the fetched documents, each occurrence counting 1,
\* targets outside the directory included, and 0 where there is none.
C5_InboundCounts ==
    pc = "ready" => \A d \in Targets : Inbound(d) = LinksTo(d, Readable)

\* The words that occur in a crawled document.
PageTerms ==
    UNION {{pages[i].words[j] : j \in 1..Len(pages[i].words)} : i \in 1..Len(pages)}

\* The positions of inverted_index, as Python numbers them.
Positions == 0..(Len(inverted_index) - 1)

\* C6: after build_index every term of a crawled document has one posting
\* list of its own; the trie returns its position, a valid one; the list is
\* not empty, its keys are the crawled documents containing the term and its
\* values their occurrence counts; any other string, a proper prefix of a
\* term included, is not found.
C6_TermLookup ==
    pc = "ready" =>
        LET terms == PageTerms
        IN /\ \A w \in terms :
                LET idx == TrieSearch(trie, w)
                IN /\ idx \in Positions
                   /\ idx = word_to_index[w]
                   /\ DOMAIN inverted_index[idx + 1] = Containing(w)
                   /\ \A f \in Containing(w) :
                        inverted_index[idx + 1][f] = Occurs(PageWords(pages, f), w)
           /\ \A w \in Strings \ terms : TrieSearch(trie, w) = None
           /\ \A v, w \in terms : v # w => TrieSearch(trie, v) # TrieSearch(trie, w)
           /\ Len(inverted_index) = Cardinality(terms)

\* A built index in which a term is found while its proper prefix, a node of
\* the trie, is not.
C6_Witness ==
    /\ pc = "ready"
    /\ TrieSearch(trie, <<"b", "a">>) \in Positions
    /\ <<"b">> \in DOMAIN trie
    /\ TrieSearch(trie, <<"b">>) = None
    /\ Len(inverted_index) = 1
    /\ Cardinality(Containing(<<"b", "a">>)) = 2

\* C7: after build_index no search call fails: every position the trie
\* returns is an index of inverted_index and every document of a posting
\* list has a recorded length of at least 1, so compute_score divides by no
\* zero, whatever documents are empty or unreadable.
C7_SearchNeverFails ==
    /\ outcome # "raised"
    /\ pc = "ready" =>
         \A w \in Strings :
            TrieSearch(trie, w) # None =>
               /\ TrieSearch(trie, w) \in Positions
               /\ \A d \in DOMAIN inverted_index[TrieSearch(trie, w) + 1] :
                    d \in DOMAIN document_lengths /\ document_lengths[d] >= 1

\* A TF-IDF search returned a ranked document although the collection holds a
\* document without terms, of recorded length 0.
C7_Witness ==
    /\ Searched
    /\ ranking_mode = "tf-idf"
    /\ result # <<>>
    /\ \E f \in DOMAIN document_lengths : document_lengths[f] = 0

\* The occurrences in a document of the terms other than t.
Others(f, t) == [w \in Strings \ {t} |-> Occurs(PageWords(pages, f), w)]

\* The TF-IDF score of document f for term t, as search computes it.
Contribution(f, t) ==
    LET occurrences == inverted_index[TrieSearch(trie, t) + 1]
    IN compute_score("tf-idf", document_lengths, f, occurrences[f], Len(pages),
                     Cardinality(DOMAIN occurrences))

\* Two crawled documents of one index that differ in the occurrences of t
\* alone, f having fewer than g: N and df are the same for both.
MoreOf(t, f, g) ==
    /\ 1 <= Occurs(PageWords(pages, f), t)
    /\ Occurs(PageWords(pages, f), t) < Occurs(PageWords(pages, g), t)
    /\ Others(f, t) = Others(g, t)

HasOthers(f, t) == \E w \in Strings \ {t} : Occurs(PageWords(pages, f), w) >= 1

\* C8 as stated: with N and df fixed, more occurrences of t in a document,
\* its other terms unchanged, give a strictly larger TF-IDF score for t.
C8_StrictlyIncreasing ==
    pc = "ready" =>
        \A t \in Strings : \A f, g \in PageKeys(pages) :
            MoreOf(t, f, g) => Contribution(f, t) < Contribution(g, t)

\* C8 amended: the score for t strictly increases when the document holds
\* another term, and stays the same when t is its only term.
C8_IncreasingWithOthers ==
    pc = "ready" =>
        \A t \in Strings : \A f, g \in PageKeys(pages) :
            MoreOf(t, f, g) =>
                IF HasOthers(f, t) THEN Contribution(f, t) < Contribution(g, t)
                ELSE Contribution(f, t) = Contribution(g, t)

\* A built index with two documents that hold the same other term and
\* different numbers of t.
C8_Witness ==
    /\ pc = "ready"
    /\ \E t \in Strings : \E f, g \in PageKeys(pages) :
          MoreOf(t, f, g) /\ HasOthers(f, t)

\* C9: crawl terminates with an empty queue whatever the links are; no file
\* is fetched more than once in a crawl, however often it is enqueued; only
\* files of the directory are enqueued.
C9_CrawlTerminates ==
    /\ [](/\ \A f \in Files : fetched[f] <= 1
          /\ \A i \in 1..Len(queue) : queue[i] \in Files
          /\ pc = "crawled" => queue = <<>>)
    /\ (pc = "crawling" ~> (pc = "crawled" /\ queue = <<>>))

\* A crawl has ended over two files that link to each other, one of them to
\* itself or twice to the other, one of them out of the directory.
C9_Witness ==
    /\ pc = "crawled"
    /\ queue = <<>>
    /\ InList("B", disk["A"].links)
    /\ InList("A", disk["B"].links)
    /\ \E f \in Files : InList(Outside, disk[f].links)
    /\ \E f \in Files : InList(f, disk[f].links) \/ Len(disk[f].links) = 2
    /\ \A f \in Files : fetched[f] = 1

\* C10: a file whose fetch fails gets no entry in pages, no terms and no
\* outbound edges, is fetched once, and the crawl goes on: after crawl the
\* keys of pages are the files whose fetch succeeded, linked to or not.
C10_FetchFailureSkipped ==
    /\ \A f \in Files \ Readable :
          /\ f \notin PageKeys(pages)
          /\ f \notin DOMAIN links
          /\ f \notin DOMAIN document_lengths
          /\ \A i \in 1..Len(inverted_index) : f \notin DOMAIN inverted_index[i]
          /\ fetched[f] <= 1
    /\ pc \in {"crawled", "ready"} => PageKeys(pages) = Readable

\* A crawl has ended in which the first file could not be read and the
\* second, which no link names, was crawled after it.
C10_Witness ==
    /\ pc = "crawled"
    /\ ~disk[all_files[1]].readable
    /\ fetched[all_files[1]] = 1
    /\ PageKeys(pages) = {all_files[2]}
    /\ disk[all_files[2]].links = <<>>
====
